---- MODULE Spec2Model ----
(***************************************************************************)
(* Model of netcoredbg's EvalWaiter (src/debugger/evalwaiter.cpp): the     *)
(* function-evaluation synchronisation between WaitEvalResult callers, the *)
(* engine's completion callback NotifyEvalComplete, CancelEvalRunning and  *)
(* the cross-thread-dependency notification callback.                      *)
(***************************************************************************)
EXTENDS Integers, Sequences, FiniteSets, TLC

(* ------------------------------ bounds --------------------------------- *)
\* managed threads of the debuggee are 1..NumThreads
NumThreads == 2
\* evaluation handles ICorDebugThread::CreateEval hands out over a run
MaxEvals == 2
\* result value handles ICorDebugEval::GetResult can hand out (0 is null)
NumValues == 1

Callers == {"c1", "c2"}
\* the stopped thread each caller evaluates on: callers and threads are
\* interchangeable, so every sequence of evaluating threads still occurs
ThreadOf(c) == IF c = "c1" THEN 1 ELSE 2
ThreadIds == 1..NumThreads
EvalIds == 1..MaxEvals
Values == 0..NumValues
NoOne == "none"

(* ------------------------------ HRESULTs ------------------------------- *)
S_OK == 0
CORDBG_S_FUNC_EVAL_HAS_NO_RESULT == 1250070
CORDBG_S_FUNC_EVAL_ABORTED == 1250073
E_FAIL == -2147467259
E_UNEXPECTED == -2147418113
E_INVALIDARG == -2147024809
COR_E_TIMEOUT == -2146233083
COR_E_OPERATIONCANCELED == -2146233029
CORDBG_E_CANT_CALL_ON_THIS_THREAD == -2146231287
CORDBG_E_PROCESS_TERMINATED == -2146233599

FAILED(hr) == hr < 0
SUCCEEDED(hr) == hr >= 0

\* what the engine and the caller's callback can answer
SetupStatuses == {S_OK, E_FAIL, E_INVALIDARG}
ContinueStatuses == {S_OK, CORDBG_E_PROCESS_TERMINATED}
GetResultStatuses == {S_OK, CORDBG_S_FUNC_EVAL_HAS_NO_RESULT,
                      CORDBG_S_FUNC_EVAL_ABORTED, E_FAIL}
AbortStatuses == {S_OK, E_FAIL}
ToggleStatuses == {S_OK, E_FAIL}

(* ------------------------------- state --------------------------------- *)
VARIABLES
    m_waitEvalResultMutex,        \* caller holding the call-level lock, or NoOne
    m_evalResultMutex,            \* caller holding the result-slot lock, or NoOne
    m_evalResult,                 \* the result slot: <<>> (empty) or <<request>>
    m_evalCanceled,
    m_evalCrossThreadDependency,
    shared,                       \* shared state of each request's promise/future
    threadState,                  \* debug state of each managed thread
    customNotification,           \* engine delivers the custom notification
    nextEval,                     \* next evaluation handle CreateEval returns
    pc,                           \* position of each WaitEvalResult caller
    frame,                        \* locals of each caller's WaitEvalResult
    notif,                        \* position and locals of the notification callback
    toggleRefused                 \* history: the engine refused the last disabling

vars == <<m_waitEvalResultMutex, m_evalResultMutex, m_evalResult, m_evalCanceled,
          m_evalCrossThreadDependency, shared, threadState, customNotification,
          nextEval, pc, frame, notif, toggleRefused>>

\* shared state of a promise/future pair
NoShared == [state |-> "none", Status |-> S_OK, iCorEval |-> 0, by |-> 0, sets |-> 0]
PendingShared == [NoShared EXCEPT !.state = "pending"]

\* locals of WaitEvalResult before the call; rejected records that the engine
\* rejected a state change of the ChangeThreadsState(THREAD_RUN) of line 246
NoFrame == [pThread |-> 0, ppEvalResult |-> FALSE, outValue |-> 0, iCorEval |-> 0,
            Status |-> S_OK, evalTimeOut |-> FALSE, ret |-> S_OK,
            rejected |-> FALSE, calls |-> <<>>]

NoNotif == [pc |-> "idle", pEval |-> 0]

Init ==
    /\ m_waitEvalResultMutex = NoOne
    /\ m_evalResultMutex = NoOne
    /\ m_evalResult = <<>>
    /\ m_evalCanceled = FALSE
    /\ m_evalCrossThreadDependency = FALSE
    /\ shared = [e \in EvalIds |-> NoShared]
    /\ threadState = [t \in ThreadIds |-> "THREAD_RUN"]
    /\ customNotification = FALSE
    /\ nextEval = 1
    /\ pc = [c \in Callers |-> "idle"]
    /\ frame = [c \in Callers |-> NoFrame]
    /\ notif = NoNotif
    /\ toggleRefused = FALSE

(* ------------------------------ helpers -------------------------------- *)
\* m_evalResult.reset(nullptr): the request and its promise are destroyed; a promise
\* destroyed before set_value leaves broken_promise in the shared state
BreakPromise(sh, slot) ==
    IF slot = <<>> THEN sh
    ELSE LET p == slot[1].promiseValue IN
         IF sh[p].state = "pending" THEN [sh EXCEPT ![p].state = "broken"] ELSE sh

\* promiseValue.set_value(outcome) by the completion for thread id `by`; sets
\* counts the set_value calls on the promise
SetValue(sh, p, status, value, by) ==
    [sh EXCEPT ![p] = [state |-> "value", Status |-> status, iCorEval |-> value,
                       by |-> by, sets |-> IF sh[p].sets < 2 THEN sh[p].sets + 1 ELSE 2]]

\* future is ready when a value or an exception is stored
Ready(s) == s.state \in {"value", "broken"}

\* ChangeThreadsState that passes THREAD_SUSPEND to SetDebugState whatever state
\* it was asked for
ChangeThreadsStateSuspends(ts, evalThreadId, state, accept) ==
    [t \in ThreadIds |->
        IF t # evalThreadId /\ t \in accept THEN "THREAD_SUSPEND" ELSE ts[t]]

\* the lambda ChangeThreadsState: every thread but the evaluating one whose
\* GetID and SetDebugState succeed (accept) gets the state
ChangeThreadsState(ts, evalThreadId, state, accept) ==
    [t \in ThreadIds |-> IF t # evalThreadId /\ t \in accept THEN state ELSE ts[t]]

Others(evalThreadId) == ThreadIds \ {evalThreadId}

\* the engine and callback calls a WaitEvalResult call has made, with their results
Call(what, hr) == [call |-> what, hr |-> hr]
Log(c, what, hr) == Append(frame[c].calls, Call(what, hr))
Made(c, what) == \E i \in DOMAIN frame[c].calls : frame[c].calls[i].call = what


(* ---------------------- WaitEvalResult, per caller --------------------- *)
\* a broken call-level lock: callers are let in whoever holds it
CallLockIgnored == TRUE

\* line 110: std::lock_guard on m_waitEvalResultMutex lets the caller in only
\* when nobody holds it
CallLockFree == m_waitEvalResultMutex = NoOne

\* lines 110-121: the caller takes the call-level lock (pThread is a live thread,
\* ppEvalResult may be null); hr is what GetProcess / GetID answer, and a
\* failure returns at once
WaitEvalResult(c, pThread, ppEvalResult, hr) ==
    /\ pc[c] = "idle"
    /\ nextEval <= MaxEvals
    /\ CallLockFree
    /\ m_waitEvalResultMutex' = c
    /\ frame' = [frame EXCEPT ![c] = [NoFrame EXCEPT !.pThread = pThread,
                                                      !.ppEvalResult = ppEvalResult,
                                                      !.ret = hr]]
    /\ pc' = [pc EXCEPT ![c] = IF FAILED(hr) THEN "return_early" ELSE "enable"]
    /\ UNCHANGED <<m_evalResultMutex, m_evalResult, m_evalCanceled,
                   m_evalCrossThreadDependency, shared, threadState,
                   customNotification, nextEval, notif>>
    /\ UNCHANGED toggleRefused

\* lines 298-304: the engine's per-process toggle; when QueryInterface or the
\* engine call fails (hr) the delivery stays as it was
SetEnableCustomNotification(enabled, fEnable, hr) ==
    IF FAILED(hr) THEN enabled ELSE fEnable

\* lines 225-228: the notification is enabled (the result is ignored) and both
\* flags are reset
Enable(c, hr) ==
    /\ pc[c] = "enable"
    /\ customNotification' = SetEnableCustomNotification(customNotification, TRUE, hr)
    /\ m_evalCanceled' = FALSE
    /\ m_evalCrossThreadDependency' = FALSE
    /\ UNCHANGED toggleRefused
    /\ pc' = [pc EXCEPT ![c] = "suspend"]
    /\ UNCHANGED <<m_waitEvalResultMutex, m_evalResultMutex, m_evalResult, shared,
                   threadState, nextEval, frame, notif>>

\* line 151: ChangeThreadsState(THREAD_SUSPEND)
Suspend(c, accept) ==
    /\ pc[c] = "suspend"
    /\ threadState' = ChangeThreadsState(threadState, frame[c].pThread,
                                         "THREAD_SUSPEND", accept)
    /\ frame' = [frame EXCEPT ![c].calls = Log(c, "Suspend", S_OK)]
    /\ pc' = [pc EXCEPT ![c] = "create_eval"]
    /\ UNCHANGED <<m_waitEvalResultMutex, m_evalResultMutex, m_evalResult,
                   m_evalCanceled, m_evalCrossThreadDependency, shared,
                   customNotification, nextEval, notif>>
    /\ UNCHANGED toggleRefused

\* lines 153-154: a failure leaves WaitResult with the status
CreateEval(c, hr) ==
    /\ pc[c] = "create_eval"
    /\ IF FAILED(hr)
       THEN /\ frame' = [frame EXCEPT ![c].ret = hr, ![c].calls = Log(c, "CreateEval", hr)]
            /\ pc' = [pc EXCEPT ![c] = "disable"]
            /\ nextEval' = nextEval
       ELSE /\ frame' = [frame EXCEPT ![c].iCorEval = nextEval,
                                      ![c].calls = Log(c, "CreateEval", hr)]
            /\ pc' = [pc EXCEPT ![c] = "runeval"]
            /\ nextEval' = nextEval + 1
    /\ UNCHANGED <<m_waitEvalResultMutex, m_evalResultMutex, m_evalResult,
                   m_evalCanceled, m_evalCrossThreadDependency, shared, threadState,
                   customNotification, notif>>
    /\ UNCHANGED toggleRefused

(* ------------------------------- RunEval -------------------------------- *)
\* lines 64-76: the promise and its future are made, the slot lock is taken and
\* the request is stored in the slot (a request still there is destroyed)
RunEvalArm(c) ==
    /\ pc[c] = "runeval"
    /\ m_evalResultMutex = NoOne
    /\ m_evalResultMutex' = c
    /\ LET e == frame[c].iCorEval IN
       /\ m_evalResult' = << [threadId |-> frame[c].pThread, pEval |-> e,
                              promiseValue |-> e] >>
       /\ shared' = [BreakPromise(shared, m_evalResult) EXCEPT ![e] = PendingShared]
    /\ frame' = [frame EXCEPT ![c].calls = Log(c, "Arm", S_OK)]
    /\ pc' = [pc EXCEPT ![c] = "setup"]
    /\ UNCHANGED <<m_waitEvalResultMutex, m_evalCanceled, m_evalCrossThreadDependency,
                   threadState, customNotification, nextEval, notif>>
    /\ UNCHANGED toggleRefused

\* lines 80-84 without line 83: a failed setup leaves the request in the slot
RunEvalSetupKeepsSlot(c, hr) ==
    /\ pc[c] = "setup"
    /\ m_evalResultMutex = c
    /\ UNCHANGED <<m_evalResult, shared>>
    /\ IF FAILED(hr)
       THEN /\ m_evalResultMutex' = NoOne
            /\ frame' = [frame EXCEPT ![c].Status = hr, ![c].ret = hr,
                                      ![c].calls = Log(c, "Setup", hr)]
            /\ pc' = [pc EXCEPT ![c] = "disable"]
       ELSE /\ UNCHANGED m_evalResultMutex
            /\ frame' = [frame EXCEPT ![c].Status = hr, ![c].calls = Log(c, "Setup", hr)]
            /\ pc' = [pc EXCEPT ![c] = "continue"]
    /\ UNCHANGED <<m_waitEvalResultMutex, m_evalCanceled, m_evalCrossThreadDependency,
                   threadState, customNotification, nextEval, notif>>
    /\ UNCHANGED toggleRefused

\* lines 80-89 with the else of line 85 left out: Continue is called whatever
\* the setup callback returned
RunEvalSetupIgnoresFailure(c, hr) ==
    /\ pc[c] = "setup"
    /\ m_evalResultMutex = c
    /\ UNCHANGED <<m_evalResult, shared, m_evalResultMutex>>
    /\ frame' = [frame EXCEPT ![c].Status = hr, ![c].calls = Log(c, "Setup", hr)]
    /\ pc' = [pc EXCEPT ![c] = "continue"]
    /\ UNCHANGED <<m_waitEvalResultMutex, m_evalCanceled, m_evalCrossThreadDependency,
                   threadState, customNotification, nextEval, notif>>
    /\ UNCHANGED toggleRefused

\* lines 80-84: cbSetupEval; on failure the request is dropped and RunEval
\* returns (line 159 then leaves WaitResult with the status)
RunEvalSetup(c, hr) ==
    /\ pc[c] = "setup"
    /\ m_evalResultMutex = c
    /\ IF FAILED(hr)
       THEN /\ m_evalResult' = <<>>
            /\ shared' = BreakPromise(shared, m_evalResult)
            /\ m_evalResultMutex' = NoOne
            /\ frame' = [frame EXCEPT ![c].Status = hr, ![c].ret = hr,
                                      ![c].calls = Log(c, "Setup", hr)]
            /\ pc' = [pc EXCEPT ![c] = "disable"]
       ELSE /\ UNCHANGED <<m_evalResult, shared, m_evalResultMutex>>
            /\ frame' = [frame EXCEPT ![c].Status = hr, ![c].calls = Log(c, "Setup", hr)]
            /\ pc' = [pc EXCEPT ![c] = "continue"]
    /\ UNCHANGED <<m_waitEvalResultMutex, m_evalCanceled, m_evalCrossThreadDependency,
                   threadState, customNotification, nextEval, notif>>
    /\ UNCHANGED toggleRefused

\* lines 85-91 with the slot lock still held when RunEval returns
RunEvalContinueKeepsLock(c, hr) ==
    /\ pc[c] = "continue"
    /\ m_evalResultMutex = c
    /\ UNCHANGED m_evalResultMutex
    /\ IF FAILED(hr)
       THEN /\ m_evalResult' = <<>>
            /\ shared' = BreakPromise(shared, m_evalResult)
            /\ frame' = [frame EXCEPT ![c].Status = hr, ![c].ret = hr,
                                      ![c].calls = Log(c, "Continue", hr)]
            /\ pc' = [pc EXCEPT ![c] = "disable"]
       ELSE /\ UNCHANGED <<m_evalResult, shared>>
            /\ frame' = [frame EXCEPT ![c].Status = hr, ![c].calls = Log(c, "Continue", hr)]
            /\ pc' = [pc EXCEPT ![c] = "wait_primary"]
    /\ UNCHANGED <<m_waitEvalResultMutex, m_evalCanceled, m_evalCrossThreadDependency,
                   threadState, customNotification, nextEval, notif>>
    /\ UNCHANGED toggleRefused

\* lines 85-91: pProcess->Continue(0); RunEval returns the future and unlocks
RunEvalContinue(c, hr) ==
    /\ pc[c] = "continue"
    /\ m_evalResultMutex = c
    /\ m_evalResultMutex' = NoOne
    /\ IF FAILED(hr)
       THEN /\ m_evalResult' = <<>>
            /\ shared' = BreakPromise(shared, m_evalResult)
            /\ frame' = [frame EXCEPT ![c].Status = hr, ![c].ret = hr,
                                      ![c].calls = Log(c, "Continue", hr)]
            /\ pc' = [pc EXCEPT ![c] = "disable"]
       ELSE /\ UNCHANGED <<m_evalResult, shared>>
            /\ frame' = [frame EXCEPT ![c].Status = hr, ![c].calls = Log(c, "Continue", hr)]
            /\ pc' = [pc EXCEPT ![c] = "wait_primary"]
    /\ UNCHANGED <<m_waitEvalResultMutex, m_evalCanceled, m_evalCrossThreadDependency,
                   threadState, customNotification, nextEval, notif>>
    /\ UNCHANGED toggleRefused

(* ------------------------ WaitResult, the waits ------------------------- *)
\* an unbounded wait (f.wait()): it returns only when the future is ready
WaitsForever == FALSE

\* lines 171 and 198: wait_for(5000 ms) gives up once the time has passed,
\* whatever the future holds
WaitTimesOut == TRUE

\* lines 171-172: f.wait_for(5000 ms) returns ready when the shared state holds a
\* value or an exception, and can run into the timeout while it holds neither
WaitPrimary(c) ==
    /\ pc[c] = "wait_primary"
    /\ Ready(shared[frame[c].iCorEval]) \/ WaitTimesOut
    /\ pc' = [pc EXCEPT ![c] = IF Ready(shared[frame[c].iCorEval])
                               THEN "wait_grace" ELSE "timeout_resume"]
    /\ UNCHANGED <<m_waitEvalResultMutex, m_evalResultMutex, m_evalResult,
                   m_evalCanceled, m_evalCrossThreadDependency, shared, threadState,
                   customNotification, nextEval, frame, notif>>
    /\ UNCHANGED toggleRefused

\* lines 184-185: Stop(0) and ChangeThreadsState(THREAD_RUN)
TimeoutResume(c, accept) ==
    /\ pc[c] = "timeout_resume"
    /\ threadState' = ChangeThreadsState(threadState, frame[c].pThread,
                                         "THREAD_RUN", accept)
    /\ frame' = [frame EXCEPT
                   ![c].calls = Log(c, "Stop", S_OK) \o <<Call("Run", S_OK)>>]
    /\ pc' = [pc EXCEPT ![c] = "timeout_abort"]
    /\ UNCHANGED <<m_waitEvalResultMutex, m_evalResultMutex, m_evalResult,
                   m_evalCanceled, m_evalCrossThreadDependency, shared,
                   customNotification, nextEval, notif>>
    /\ UNCHANGED toggleRefused

\* lines 187-192 without the test of line 187: RudeAbort() is always requested
AbortCallsAlwaysRude(abort) ==
    <<Call("Abort", abort), Call("RudeAbort", S_OK)>>

\* the engine calls of "graceful abort, then forced abort if that failed"
AbortCalls(abort) ==
    IF FAILED(abort) THEN <<Call("Abort", abort), Call("RudeAbort", S_OK)>>
    ELSE <<Call("Abort", abort)>>

\* lines 187-195: iCorEval->Abort(), RudeAbort() when it failed, evalTimeOut = true
\* and Continue(0)
TimeoutAbort(c, abort) ==
    /\ pc[c] = "timeout_abort"
    /\ frame' = [frame EXCEPT ![c].evalTimeOut = TRUE,
                              ![c].calls = @ \o AbortCalls(abort) \o <<Call("Continue", S_OK)>>]
    /\ pc' = [pc EXCEPT ![c] = "wait_grace"]
    /\ UNCHANGED <<m_waitEvalResultMutex, m_evalResultMutex, m_evalResult,
                   m_evalCanceled, m_evalCrossThreadDependency, shared, threadState,
                   customNotification, nextEval, notif>>
    /\ UNCHANGED toggleRefused

\* lines 198-199: the second f.wait_for(5000 ms)
WaitGrace(c) ==
    /\ pc[c] = "wait_grace"
    /\ Ready(shared[frame[c].iCorEval]) \/ WaitTimesOut
    /\ pc' = [pc EXCEPT ![c] = IF Ready(shared[frame[c].iCorEval])
                               THEN "get" ELSE "fatal"]
    /\ UNCHANGED <<m_waitEvalResultMutex, m_evalResultMutex, m_evalResult,
                   m_evalCanceled, m_evalCrossThreadDependency, shared, threadState,
                   customNotification, nextEval, frame, notif>>
    /\ UNCHANGED toggleRefused

\* the fatal exit without lines 203-205: the request stays in the slot
FatalKeepsSlot(c) ==
    /\ pc[c] = "fatal"
    /\ frame' = [frame EXCEPT ![c].ret = E_UNEXPECTED, ![c].calls = Log(c, "Stop", S_OK)]
    /\ pc' = [pc EXCEPT ![c] = "disable"]
    /\ UNCHANGED <<m_waitEvalResultMutex, m_evalResultMutex, m_evalResult, shared,
                   m_evalCanceled, m_evalCrossThreadDependency, threadState,
                   customNotification, nextEval, notif>>
    /\ UNCHANGED toggleRefused

\* lines 202-207: Stop(0), the slot is cleared under its lock, E_UNEXPECTED
Fatal(c) ==
    /\ pc[c] = "fatal"
    /\ m_evalResultMutex = NoOne
    /\ m_evalResult' = <<>>
    /\ shared' = BreakPromise(shared, m_evalResult)
    /\ frame' = [frame EXCEPT ![c].ret = E_UNEXPECTED, ![c].calls = Log(c, "Stop", S_OK)]
    /\ pc' = [pc EXCEPT ![c] = "disable"]
    /\ UNCHANGED <<m_waitEvalResultMutex, m_evalResultMutex, m_evalCanceled,
                   m_evalCrossThreadDependency, threadState, customNotification,
                   nextEval, notif>>
    /\ UNCHANGED toggleRefused

\* lines 210-222 with line 217 returning S_OK instead of the outcome's status
GetOutcomeDropsStatus(fr, s) ==
    IF s.state # "value" THEN [fr EXCEPT !.ret = E_FAIL]
    ELSE IF FAILED(s.Status) THEN [fr EXCEPT !.ret = s.Status]
    ELSE IF ~fr.ppEvalResult THEN [fr EXCEPT !.ret = S_OK]
    ELSE [fr EXCEPT !.outValue = s.iCorEval, !.ret = S_OK]

\* lines 210-222 with the catch of lines 219-222 returning S_OK
GetOutcomeSwallowsError(fr, s) ==
    IF s.state # "value" THEN [fr EXCEPT !.ret = S_OK]
    ELSE IF FAILED(s.Status) THEN [fr EXCEPT !.ret = s.Status]
    ELSE IF ~fr.ppEvalResult THEN [fr EXCEPT !.ret = S_OK]
    ELSE [fr EXCEPT !.outValue = s.iCorEval, !.ret = s.Status]

\* lines 210-222: what WaitResult returns and writes to *ppEvalResult once the
\* future is ready; f.get() throws future_error on a broken promise
GetOutcome(fr, s) ==
    IF s.state # "value" THEN [fr EXCEPT !.ret = E_FAIL]
    ELSE IF FAILED(s.Status) THEN [fr EXCEPT !.ret = s.Status]
    ELSE IF ~fr.ppEvalResult THEN [fr EXCEPT !.ret = S_OK]
    ELSE [fr EXCEPT !.outValue = s.iCorEval, !.ret = s.Status]

Get(c) ==
    /\ pc[c] = "get"
    /\ frame' = [frame EXCEPT ![c] = GetOutcome(frame[c], shared[frame[c].iCorEval])]
    /\ pc' = [pc EXCEPT ![c] = "disable"]
    /\ UNCHANGED <<m_waitEvalResultMutex, m_evalResultMutex, m_evalResult,
                   m_evalCanceled, m_evalCrossThreadDependency, shared, threadState,
                   customNotification, nextEval, notif>>
    /\ UNCHANGED toggleRefused

(* -------------------- WaitEvalResult, after WaitResult ------------------ *)
\* lines 233-239 alone: the translation without the evalTimeOut branch
TranslateAbortedOnly(ret, evalTimeOut, canceled, crossThreadDependency) ==
    IF ret = CORDBG_S_FUNC_EVAL_ABORTED
    THEN IF crossThreadDependency THEN CORDBG_E_CANT_CALL_ON_THIS_THREAD
         ELSE IF canceled THEN COR_E_OPERATIONCANCELED ELSE COR_E_TIMEOUT
    ELSE ret

\* lines 233-244 with the flags tested in the other order
TranslateCanceledFirst(ret, evalTimeOut, canceled, crossThreadDependency) ==
    IF ret = CORDBG_S_FUNC_EVAL_ABORTED
    THEN IF canceled THEN COR_E_OPERATIONCANCELED
         ELSE IF crossThreadDependency THEN CORDBG_E_CANT_CALL_ON_THIS_THREAD
         ELSE COR_E_TIMEOUT
    ELSE IF evalTimeOut
    THEN IF ret = E_UNEXPECTED THEN E_UNEXPECTED ELSE COR_E_TIMEOUT
    ELSE ret

\* lines 233-244 with line 243 assigning COR_E_TIMEOUT whatever ret is
TranslateTimeoutAlways(ret, evalTimeOut, canceled, crossThreadDependency) ==
    IF ret = CORDBG_S_FUNC_EVAL_ABORTED
    THEN IF crossThreadDependency THEN CORDBG_E_CANT_CALL_ON_THIS_THREAD
         ELSE IF canceled THEN COR_E_OPERATIONCANCELED ELSE COR_E_TIMEOUT
    ELSE IF evalTimeOut THEN COR_E_TIMEOUT
    ELSE ret

\* lines 233-244: the final status translation
TranslateStatus(ret, evalTimeOut, canceled, crossThreadDependency) ==
    IF ret = CORDBG_S_FUNC_EVAL_ABORTED
    THEN IF crossThreadDependency THEN CORDBG_E_CANT_CALL_ON_THIS_THREAD
         ELSE IF canceled THEN COR_E_OPERATIONCANCELED ELSE COR_E_TIMEOUT
    ELSE IF evalTimeOut
    THEN IF ret = E_UNEXPECTED THEN E_UNEXPECTED ELSE COR_E_TIMEOUT
    ELSE ret

\* lines 233-244 without line 231: the notification is left as it is
TranslateLeavesEnabled(c, hr) ==
    /\ pc[c] = "disable"
    /\ UNCHANGED <<customNotification, toggleRefused>>
    /\ frame' = [frame EXCEPT ![c].ret =
                    TranslateStatus(@, frame[c].evalTimeOut, m_evalCanceled,
                                    m_evalCrossThreadDependency)]
    /\ pc' = [pc EXCEPT ![c] = "resume"]
    /\ UNCHANGED <<m_waitEvalResultMutex, m_evalResultMutex, m_evalResult,
                   m_evalCanceled, m_evalCrossThreadDependency, shared, threadState,
                   nextEval, notif>>

\* lines 231-244: the notification is disabled (the result is ignored) and the
\* status translated
Translate(c, hr) ==
    /\ pc[c] = "disable"
    /\ customNotification' = SetEnableCustomNotification(customNotification, FALSE, hr)
    /\ toggleRefused' = (FAILED(hr) /\ customNotification)
    /\ frame' = [frame EXCEPT ![c].ret =
                    TranslateStatus(@, frame[c].evalTimeOut, m_evalCanceled,
                                    m_evalCrossThreadDependency)]
    /\ pc' = [pc EXCEPT ![c] = "resume"]
    /\ UNCHANGED <<m_waitEvalResultMutex, m_evalResultMutex, m_evalResult,
                   m_evalCanceled, m_evalCrossThreadDependency, shared, threadState,
                   nextEval, notif>>

\* line 246: ChangeThreadsState(THREAD_RUN)
Resume(c, accept) ==
    /\ pc[c] = "resume"
    /\ threadState' = ChangeThreadsState(threadState, frame[c].pThread,
                                         "THREAD_RUN", accept)
    /\ frame' = [frame EXCEPT
                   ![c].rejected = Others(frame[c].pThread) \ accept # {},
                   ![c].calls = Log(c, "Run", S_OK)]
    /\ pc' = [pc EXCEPT ![c] = "return"]
    /\ UNCHANGED <<m_waitEvalResultMutex, m_evalResultMutex, m_evalResult,
                   m_evalCanceled, m_evalCrossThreadDependency, shared,
                   customNotification, nextEval, notif>>
    /\ UNCHANGED toggleRefused

\* lines 119, 121 and 247: the call returns; its locals, the future and the
\* call-level lock are released
Return(c) ==
    /\ pc[c] \in {"return", "return_early"}
    /\ m_waitEvalResultMutex' = IF m_waitEvalResultMutex = c THEN NoOne
                                ELSE m_waitEvalResultMutex
    /\ shared' = IF frame[c].iCorEval = 0 THEN shared
                 ELSE [shared EXCEPT ![frame[c].iCorEval] = NoShared]
    /\ frame' = [frame EXCEPT ![c] = NoFrame]
    /\ pc' = [pc EXCEPT ![c] = "idle"]
    /\ UNCHANGED <<m_evalResultMutex, m_evalResult, m_evalCanceled,
                   m_evalCrossThreadDependency, threadState, customNotification,
                   nextEval, notif>>
    /\ UNCHANGED toggleRefused

(* --------------------------- engine callbacks --------------------------- *)
\* a thread object whose GetID fails (the callbacks can be handed one)
DeadThread == NumThreads + 1

\* pThread->GetID(&threadId) with threadId preset to 0
GetIDFails(pThread) == pThread = DeadThread
GetID(pThread) == IF GetIDFails(pThread) THEN 0 ELSE pThread

\* lines 23-28: the outcomes pEval->GetResult can put in the evalResultData_t;
\* without a pEval the value handle stays null
GetResult(pEval) ==
    [Status : GetResultStatuses, iCorEval : IF pEval = 0 THEN {0} ELSE Values]

\* lines 11-35 with the thread id test of line 30 left out
NotifyEvalCompleteAnyThread(pThread, pEval) ==
    /\ m_evalResultMutex = NoOne
    /\ pEval < nextEval
    /\ IF pThread = 0
       THEN /\ m_evalResult' = <<>>
            /\ shared' = BreakPromise(shared, m_evalResult)
       ELSE IF m_evalResult = <<>>
       THEN UNCHANGED <<m_evalResult, shared>>
       ELSE /\ \E r \in GetResult(pEval) :
                 shared' = SetValue(shared, m_evalResult[1].promiseValue,
                                    r.Status, r.iCorEval, GetID(pThread))
            /\ m_evalResult' = <<>>
    /\ UNCHANGED <<m_waitEvalResultMutex, m_evalResultMutex, m_evalCanceled,
                   m_evalCrossThreadDependency, threadState, customNotification,
                   nextEval, pc, frame, notif>>
    /\ UNCHANGED toggleRefused

\* lines 11-35 without line 34: the fulfilled request stays in the slot
NotifyEvalCompleteKeepsSlot(pThread, pEval) ==
    /\ m_evalResultMutex = NoOne
    /\ pEval < nextEval
    /\ IF pThread = 0
       THEN /\ m_evalResult' = <<>>
            /\ shared' = BreakPromise(shared, m_evalResult)
       ELSE IF m_evalResult = <<>> \/ m_evalResult[1].threadId # GetID(pThread)
       THEN UNCHANGED <<m_evalResult, shared>>
       ELSE /\ \E r \in GetResult(pEval) :
                 shared' = SetValue(shared, m_evalResult[1].promiseValue,
                                    r.Status, r.iCorEval, GetID(pThread))
            /\ UNCHANGED m_evalResult
    /\ UNCHANGED <<m_waitEvalResultMutex, m_evalResultMutex, m_evalCanceled,
                   m_evalCrossThreadDependency, threadState, customNotification,
                   nextEval, pc, frame, notif>>
    /\ UNCHANGED toggleRefused

\* lines 11-35; pThread = 0 is the null thread
NotifyEvalComplete(pThread, pEval) ==
    /\ m_evalResultMutex = NoOne
    /\ pEval < nextEval
    /\ IF pThread = 0
       THEN /\ m_evalResult' = <<>>
            /\ shared' = BreakPromise(shared, m_evalResult)
       ELSE IF m_evalResult = <<>> \/ m_evalResult[1].threadId # GetID(pThread)
       THEN UNCHANGED <<m_evalResult, shared>>
       ELSE /\ \E r \in GetResult(pEval) :
                 shared' = SetValue(shared, m_evalResult[1].promiseValue,
                                    r.Status, r.iCorEval, GetID(pThread))
            /\ m_evalResult' = <<>>
    /\ UNCHANGED <<m_waitEvalResultMutex, m_evalResultMutex, m_evalCanceled,
                   m_evalCrossThreadDependency, threadState, customNotification,
                   nextEval, pc, frame, notif>>
    /\ UNCHANGED toggleRefused

\* lines 37-41, read with the slot lock held
IsEvalRunning == m_evalResult # <<>>

IsEvalRunningCall ==
    /\ m_evalResultMutex = NoOne
    /\ IsEvalRunning \in BOOLEAN
    /\ UNCHANGED vars

\* lines 43-55: Abort(), else QueryInterface and RudeAbort() (rude)
CancelEvalRunning(abort, rude) ==
    /\ m_evalResultMutex = NoOne
    /\ m_evalCanceled' = IF m_evalResult # <<>> /\ (SUCCEEDED(abort) \/ SUCCEEDED(rude))
                         THEN TRUE ELSE m_evalCanceled
    /\ UNCHANGED toggleRefused
    /\ UNCHANGED <<m_waitEvalResultMutex, m_evalResultMutex, m_evalResult,
                   m_evalCrossThreadDependency, shared, threadState,
                   customNotification, nextEval, pc, frame, notif>>

\* lines 94-103; 0 is nullptr
FindEvalForThread(pThread) ==
    IF GetIDFails(pThread) \/ m_evalResult = <<>> THEN 0
    ELSE IF m_evalResult[1].threadId = pThread THEN m_evalResult[1].pEval ELSE 0

\* lines 258-260 of ManagedCallbackCustomNotification: the lookup, under the
\* slot lock, which is released before the handle is used
NotificationFind(pThread) ==
    /\ notif.pc = "idle"
    /\ m_evalResultMutex = NoOne
    /\ LET pEval == FindEvalForThread(pThread) IN
       notif' = IF pEval = 0 THEN NoNotif ELSE [pc |-> "abort", pEval |-> pEval]
    /\ UNCHANGED <<m_waitEvalResultMutex, m_evalResultMutex, m_evalResult,
                   m_evalCanceled, m_evalCrossThreadDependency, shared, threadState,
                   customNotification, nextEval, pc, frame>>
    /\ UNCHANGED toggleRefused

\* lines 262-270: Abort(), else QueryInterface and RudeAbort() (rude)
NotificationAbort(abort, rude) ==
    /\ notif.pc = "abort"
    /\ notif' = IF FAILED(abort) /\ FAILED(rude) THEN NoNotif
                ELSE [notif EXCEPT !.pc = "set_flag"]
    /\ UNCHANGED <<m_waitEvalResultMutex, m_evalResultMutex, m_evalResult,
                   m_evalCanceled, m_evalCrossThreadDependency, shared, threadState,
                   customNotification, nextEval, pc, frame>>
    /\ UNCHANGED toggleRefused

\* lines 272-273
NotificationSetFlag ==
    /\ notif.pc = "set_flag"
    /\ m_evalCrossThreadDependency' = TRUE
    /\ UNCHANGED toggleRefused
    /\ notif' = NoNotif
    /\ UNCHANGED <<m_waitEvalResultMutex, m_evalResultMutex, m_evalResult,
                   m_evalCanceled, shared, threadState, customNotification,
                   nextEval, pc, frame>>

(* ---------------------------- specification ----------------------------- *)
\* the steps a caller takes between taking the call-level lock and returning
Body(c) ==
    \/ \E hr \in ToggleStatuses : Enable(c, hr)
    \/ \E accept \in SUBSET Others(frame[c].pThread) : Suspend(c, accept)
    \/ \E hr \in {S_OK, E_FAIL} : CreateEval(c, hr)
    \/ RunEvalArm(c)
    \/ \E hr \in SetupStatuses : RunEvalSetup(c, hr)
    \/ \E hr \in ContinueStatuses : RunEvalContinue(c, hr)
    \/ WaitPrimary(c)
    \/ \E accept \in SUBSET Others(frame[c].pThread) : TimeoutResume(c, accept)
    \/ \E abort \in AbortStatuses : TimeoutAbort(c, abort)
    \/ WaitGrace(c)
    \/ Fatal(c)
    \/ Get(c)
    \/ \E hr \in ToggleStatuses : Translate(c, hr)
    \/ \E accept \in SUBSET Others(frame[c].pThread) : Resume(c, accept)
    \/ Return(c)

Engine ==
    \/ \E pThread \in 0..DeadThread, pEval \in 0..MaxEvals :
          NotifyEvalComplete(pThread, pEval)
    \/ IsEvalRunningCall
    \/ \E abort \in AbortStatuses, rude \in AbortStatuses : CancelEvalRunning(abort, rude)
    \/ \E pThread \in 1..DeadThread : NotificationFind(pThread)
    \/ \E abort \in AbortStatuses, rude \in AbortStatuses : NotificationAbort(abort, rude)
    \/ NotificationSetFlag

Next ==
    \/ \E c \in Callers, ppEvalResult \in BOOLEAN, hr \in {S_OK, E_FAIL} :
          WaitEvalResult(c, ThreadOf(c), ppEvalResult, hr)
    \/ \E c \in Callers : Body(c)
    \/ Engine

Spec == Init /\ [][Next]_vars

\* a caller that is running is scheduled: its own steps are never postponed forever
FairSpec == Spec /\ \A c \in Callers : WF_vars(Body(c))

(* ------------------------------ properties ------------------------------ *)
\* positions between a successful RunEval and the end of WaitResult's waits
Waiting == {"wait_primary", "timeout_resume", "timeout_abort", "wait_grace", "fatal"}

\* the shared state of the request caller c armed
Outcome(c) == shared[frame[c].iCorEval]

Returning(c) == pc[c] = "return"

OthersRunning(c) == \A t \in Others(frame[c].pThread) : threadState[t] = "THREAD_RUN"

\* C1: at most one WaitEvalResult call executes its body at any time: whoever is
\* between taking the call-level lock and returning is the holder of that lock,
\* so two callers are never both inside.
C1_OneCallAtATime ==
    /\ \A c \in Callers : pc[c] # "idle" => m_waitEvalResultMutex = c
    /\ \A c, d \in Callers : pc[c] # "idle" /\ pc[d] # "idle" => c = d

\* a caller waits on its future while the other can call and is kept out by the lock
C1_Witness ==
    \E c, d \in Callers :
        /\ c # d
        /\ pc[c] = "wait_grace"
        /\ pc[d] = "idle"
        /\ nextEval <= MaxEvals
        /\ m_waitEvalResultMutex = c

\* C2: the result slot is empty whenever RunEval reaches its arm step (the
\* assertion of line 75 holds), and at most one request is armed: the armed
\* request's promise is the only unfulfilled one.
C2_ArmFindsSlotEmpty ==
    /\ \A c \in Callers : pc[c] = "runeval" => m_evalResult = <<>>
    /\ \A e \in EvalIds :
          shared[e].state = "pending"
             => m_evalResult # <<>> /\ m_evalResult[1].promiseValue = e

\* a second evaluation reaches the arm step while a notification that looked up
\* the first one is still in flight
C2_Witness ==
    \E c \in Callers :
        /\ pc[c] = "runeval"
        /\ frame[c].iCorEval = 2
        /\ notif.pc = "abort"

C4_ForeignCompletionIsNoOp ==
    [][\A pThread \in 1..DeadThread, pEval \in 0..MaxEvals :
          /\ m_evalResult # <<>>
          /\ m_evalResult[1].threadId # GetID(pThread)
          /\ NotifyEvalComplete(pThread, pEval)
          => UNCHANGED <<m_evalResult, shared, m_evalCanceled,
                         m_evalCrossThreadDependency>>]_vars

\* a request of thread 1 is armed and awaited, a completion for thread 2 can
\* be delivered
C4_Witness ==
    \E c \in Callers :
        /\ pc[c] = "wait_primary"
        /\ m_evalResultMutex = NoOne
        /\ m_evalResult # <<>>
        /\ m_evalResult[1].threadId = 1
        /\ Outcome(c).state = "pending"

\* C5: when a call that suspended threads returns, every thread but the
\* evaluating one is running, provided the engine accepted every state change
\* of the final resume.
C5_ThreadsResumedOnReturn ==
    \A c \in Callers : Returning(c) /\ ~frame[c].rejected => OthersRunning(c)

\* the fatal exit returns with the other threads running
C5_Witness ==
    \E c \in Callers :
        /\ Returning(c)
        /\ ~frame[c].rejected
        /\ frame[c].ret = E_UNEXPECTED
        /\ OthersRunning(c)

\* the fatal exit was taken: Stop(0) was called a second time
FatalTaken(c) ==
    Cardinality({i \in DOMAIN frame[c].calls : frame[c].calls[i].call = "Stop"}) = 2

\* C6 as stated: once the primary timeout elapsed the call returns "timed out"
\* or the fatal status.
C6_Original ==
    \A c \in Callers :
        Returning(c) /\ frame[c].evalTimeOut
           => frame[c].ret \in {COR_E_TIMEOUT, E_UNEXPECTED}

\* C6, amended: once the primary timeout elapsed, the abort was requested and the
\* call returns a failure: the fatal status on the fatal exit, else "timed out",
\* or, when the completion reports "evaluation aborted" to a caller with an
\* output slot, "cannot call on this thread" if crossThreadDependency is set and
\* "operation canceled" if canceled is set.
C6_TimedOutNeverSucceeds ==
    \A c \in Callers :
        Returning(c) /\ frame[c].evalTimeOut
           => /\ FAILED(frame[c].ret)
              /\ Made(c, "Abort")
              /\ frame[c].ret \in {COR_E_TIMEOUT, E_UNEXPECTED, COR_E_OPERATIONCANCELED,
                                   CORDBG_E_CANT_CALL_ON_THIS_THREAD}
              /\ FatalTaken(c) => frame[c].ret = E_UNEXPECTED
              /\ frame[c].ret = COR_E_OPERATIONCANCELED
                    => /\ Outcome(c).Status = CORDBG_S_FUNC_EVAL_ABORTED
                       /\ frame[c].ppEvalResult
                       /\ m_evalCanceled
              /\ frame[c].ret = CORDBG_E_CANT_CALL_ON_THIS_THREAD
                    => /\ Outcome(c).Status = CORDBG_S_FUNC_EVAL_ABORTED
                       /\ frame[c].ppEvalResult
                       /\ m_evalCrossThreadDependency
              /\ ~frame[c].rejected => OthersRunning(c)

\* a timed-out evaluation that was canceled returns "operation canceled"
C6_Witness ==
    \E c \in Callers :
        /\ Returning(c)
        /\ frame[c].evalTimeOut
        /\ frame[c].ret = COR_E_OPERATIONCANCELED

\* C7: every call that has taken the call-level lock returns, whatever the
\* engine does: with no completion and no effective abort it leaves through the
\* two bounded waits and the fatal exit.
C7_CallReturns == \A c \in Callers : (pc[c] # "idle") ~> (pc[c] = "idle")

\* a call no completion ever reached returns by the fatal exit after a failed
\* graceful abort: its promise was broken by the fatal clear, not fulfilled
C7_Witness ==
    \E c \in Callers :
        /\ Returning(c)
        /\ FatalTaken(c)
        /\ Made(c, "RudeAbort")
        /\ Outcome(c).state = "broken"
        /\ ~m_evalCanceled /\ ~m_evalCrossThreadDependency

\* C8 as stated: when CancelEvalRunning aborted the armed request, no cross-thread
\* notification fired and the evaluation completes as aborted (here: before any
\* timeout), WaitEvalResult returns "operation canceled", with or without an
\* output slot.
C8_Original ==
    \A c \in Callers :
        /\ Returning(c)
        /\ ~frame[c].evalTimeOut
        /\ m_evalCanceled
        /\ ~m_evalCrossThreadDependency
        /\ Outcome(c).state = "value"
        /\ Outcome(c).Status = CORDBG_S_FUNC_EVAL_ABORTED
        => frame[c].ret = COR_E_OPERATIONCANCELED

\* a caller that armed a request with successful setup and resume and still has
\* it unfulfilled and uncleared
Unfinished(c) == pc[c] \in Waiting /\ Outcome(c).state = "pending"

\* C9: whenever IsEvalRunning can take the slot lock, it answers true iff some
\* call armed a request with successful setup and resume that is neither
\* fulfilled nor cleared; it answers false once a call is past its waits and
\* whenever no call is in progress.
C9_RunningIffArmed ==
    /\ m_evalResultMutex = NoOne
          => (IsEvalRunning <=> \E c \in Callers : Unfinished(c))
    /\ \A c \in Callers :
          pc[c] \in {"get", "disable", "resume", "return", "return_early"}
             => ~IsEvalRunning
    /\ m_waitEvalResultMutex = NoOne => ~IsEvalRunning

\* IsEvalRunning answers true during the abort-grace wait of a timed-out call
C9_Witness ==
    \E c \in Callers :
        /\ pc[c] = "wait_grace"
        /\ frame[c].evalTimeOut
        /\ m_evalResultMutex = NoOne
        /\ IsEvalRunning

\* the setup callback of caller c returned the failure hr
SetupFailed(c, hr) ==
    /\ FAILED(hr)
    /\ \E i \in DOMAIN frame[c].calls : frame[c].calls[i] = Call("Setup", hr)

\* C10: when the setup callback fails, WaitEvalResult returns that very status,
\* Continue is never called, the slot is empty from the failure on and the other
\* threads are running at the return (when the engine accepted every state
\* change of the final resume).
C10_SetupFailure ==
    \A c \in Callers : \A hr \in SetupStatuses :
        SetupFailed(c, hr)
           => /\ ~Made(c, "Continue")
              /\ ~IsEvalRunning
              /\ Outcome(c).state = "broken"
              /\ frame[c].ret = hr
              /\ pc[c] \in {"disable", "resume", "return"}
              /\ Returning(c) /\ ~frame[c].rejected => OthersRunning(c)

\* a call returns the setup callback's E_INVALIDARG
C10_Witness ==
    \E c \in Callers :
        /\ Returning(c)
        /\ SetupFailed(c, E_INVALIDARG)
        /\ frame[c].ret = E_INVALIDARG
        /\ OthersRunning(c)

(* ------------------------- setup before resume -------------------------- *)
\* how many times caller c has made the call
Count(c, what) ==
    Cardinality({i \in DOMAIN frame[c].calls : frame[c].calls[i].call = what})

\* C11 as stated: every WaitEvalResult call invokes the setup callback exactly
\* once.
C11_Original ==
    \A c \in Callers :
        pc[c] \in {"return", "return_early"} => Count(c, "Setup") = 1

\* C11, amended: the setup callback is invoked at most once per call, and exactly
\* once in a call that created its evaluation handle; it is invoked right after
\* the handle was created and the request armed; the process is resumed right
\* after a successful setup and not at all after a failed one, so every Continue
\* follows a setup that succeeded.
C11_SetupOnceBeforeContinue ==
    \A c \in Callers :
        LET calls == frame[c].calls IN
        /\ Count(c, "Setup") <= 1
        /\ frame[c].iCorEval = 0 => ~Made(c, "Setup")
        /\ frame[c].iCorEval # 0 /\ pc[c] \notin {"runeval", "setup"}
              => Count(c, "Setup") = 1
        /\ \A i \in DOMAIN calls :
              /\ calls[i].call = "Setup"
                    => /\ i > 2
                       /\ calls[i - 1].call = "Arm"
                       /\ calls[i - 2] = Call("CreateEval", S_OK)
                       /\ i < Len(calls)
                             => (calls[i + 1].call = "Continue" <=> SUCCEEDED(calls[i].hr))
              /\ calls[i].call = "Continue"
                    => \E j \in 1..(i - 1) : calls[j] = Call("Setup", S_OK)

\* a timed-out call resumed the process twice after its one successful setup
C11_Witness ==
    \E c \in Callers :
        /\ Returning(c)
        /\ Count(c, "Setup") = 1
        /\ Count(c, "Continue") = 2

(* ---------------------- the custom notification toggle ------------------ *)
\* positions between enabling the notification and disabling it again
InFlight ==
    {"suspend", "create_eval", "runeval", "setup", "continue", "get", "disable"}
        \union Waiting

Abandoned(c) ==
    /\ Made(c, "Continue")
    /\ frame[c].calls[5] = Call("Continue", S_OK)
    /\ Outcome(c).state = "broken"
    /\ ~FatalTaken(c)

\* C13: NotifyEvalComplete with no thread empties the slot and fulfils no
\* promise (the armed promise is left broken, the flags are untouched); a call
\* whose request was abandoned that way gets E_FAIL from WaitResult and returns
\* E_FAIL, or "timed out" when the primary timeout had elapsed: a failure, with
\* no result value.
C13_ResetAbandons ==
    /\ [](\A c \in Callers :
             /\ pc[c] = "disable" /\ Abandoned(c)
                   => frame[c].ret = E_FAIL /\ frame[c].outValue = 0
             /\ pc[c] \in {"resume", "return"} /\ Abandoned(c)
                   => /\ frame[c].ret = IF frame[c].evalTimeOut THEN COR_E_TIMEOUT
                                        ELSE E_FAIL
                      /\ FAILED(frame[c].ret)
                      /\ frame[c].outValue = 0)
    /\ [][\A pEval \in 0..MaxEvals :
             NotifyEvalComplete(0, pEval)
                => /\ m_evalResult' = <<>>
                   /\ \A e \in EvalIds :
                         /\ shared'[e].sets = shared[e].sets
                         /\ shared'[e].state # "value" \/ shared[e].state = "value"
                         /\ shared[e].state = "pending" => shared'[e].state = "broken"
                   /\ UNCHANGED <<m_evalCanceled, m_evalCrossThreadDependency>>]_vars

\* a timed-out call whose request was reset during the abort-grace wait returns
\* "timed out" and no value to a caller with an output slot
C13_Witness ==
    \E c \in Callers :
        /\ Returning(c)
        /\ Abandoned(c)
        /\ frame[c].evalTimeOut
        /\ frame[c].ppEvalResult
        /\ frame[c].ret = COR_E_TIMEOUT

(* ------------------------ final status translation ---------------------- *)
\* C14: the status WaitResult returned as "evaluation aborted" is translated to
\* "cannot call on this thread" when crossThreadDependency is set (whatever
\* canceled and evalTimeOut are), else to "operation canceled" when canceled is
\* set, else to "timed out"; any other status is returned unmodified unless the
\* primary timeout elapsed.
C14_Translation ==
    [][\A c \in Callers : \A hr \in ToggleStatuses :
          Translate(c, hr)
             => /\ frame[c].ret = CORDBG_S_FUNC_EVAL_ABORTED
                      => frame'[c].ret =
                            IF m_evalCrossThreadDependency
                            THEN CORDBG_E_CANT_CALL_ON_THIS_THREAD
                            ELSE IF m_evalCanceled THEN COR_E_OPERATIONCANCELED
                            ELSE COR_E_TIMEOUT
                /\ frame[c].ret # CORDBG_S_FUNC_EVAL_ABORTED /\ ~frame[c].evalTimeOut
                      => frame'[c].ret = frame[c].ret]_vars

\* cross-thread dependency wins over canceled and over the elapsed timeout
C14_Witness ==
    \E c \in Callers :
        /\ pc[c] = "resume"
        /\ frame[c].ret = CORDBG_E_CANT_CALL_ON_THIS_THREAD
        /\ m_evalCanceled
        /\ m_evalCrossThreadDependency
        /\ frame[c].evalTimeOut

(* ------------------------------ fatal path ------------------------------ *)
\* the calls caller c made after its second Stop(0)
AfterFatalStop(c) ==
    LET calls == frame[c].calls
        stops == {i \in DOMAIN calls : calls[i].call = "Stop"}
        last == CHOOSE i \in stops : \A j \in stops : j <= i
    IN {calls[i].call : i \in (last + 1)..Len(calls)}

\* C15: the fatal exit is taken only after the primary timeout and its abort,
\* with the future unresolved at the second wait; it leaves the slot empty and
\* the call returns E_UNEXPECTED whatever the flags are (the translation keeps
\* it); after the second Stop(0) the call aborts, resumes and waits no more: it
\* only sets the threads running.
C15_FatalPath ==
    \A c \in Callers :
        /\ pc[c] = "fatal" => frame[c].evalTimeOut /\ Count(c, "Abort") = 1
        /\ FatalTaken(c)
              => /\ pc[c] \in {"disable", "resume", "return"}
                 /\ frame[c].evalTimeOut
                 /\ ~IsEvalRunning
                 /\ Outcome(c).state # "pending"
                 /\ frame[c].ret = E_UNEXPECTED
                 /\ Count(c, "Abort") = 1
                 /\ Count(c, "Continue") = 2
                 /\ AfterFatalStop(c) \subseteq {"Run"}

\* the fatal exit returns E_UNEXPECTED although the evaluation was canceled
C15_Witness ==
    \E c \in Callers :
        /\ Returning(c)
        /\ FatalTaken(c)
        /\ m_evalCanceled
        /\ frame[c].ret = E_UNEXPECTED

(* --------------------------- timeout escalation ------------------------- *)
\* C16: on the primary timeout the call stops the process and sets the other
\* threads running (all of them when the engine accepts each change) before it
\* requests the abort; RudeAbort is requested only after a failed Abort;
\* evalTimeOut is set with the abort and the process is continued after the
\* abort request, before the second wait. A call whose first wait found the
\* future ready does none of this.
C16_Escalation ==
    /\ [](\A c \in Callers :
             LET calls == frame[c].calls
                 n == Len(calls)
             IN /\ frame[c].evalTimeOut <=> Made(c, "Abort")
                /\ Count(c, "Abort") <= 1
                /\ \A i \in DOMAIN calls :
                      /\ calls[i].call = "Abort"
                            => /\ i > 2
                               /\ calls[i - 1].call = "Run"
                               /\ calls[i - 2].call = "Stop"
                      /\ calls[i].call = "RudeAbort"
                            => calls[i - 1].call = "Abort" /\ FAILED(calls[i - 1].hr)
                /\ pc[c] = "timeout_abort"
                      => calls[n].call = "Run" /\ ~frame[c].evalTimeOut
                /\ pc[c] \in {"wait_grace", "fatal"} /\ frame[c].evalTimeOut
                      => /\ calls[n].call = "Continue"
                         /\ calls[n - 1].call \in {"Abort", "RudeAbort"}
                /\ pc[c] # "timeout_abort" /\ ~frame[c].evalTimeOut
                      => /\ ~Made(c, "Stop")
                         /\ ~Made(c, "Abort")
                         /\ ~Made(c, "RudeAbort")
                         /\ Count(c, "Continue") <= 1
                         /\ Count(c, "Run") <= 1
                         /\ Made(c, "Run") => pc[c] = "return")
    /\ [][\A c \in Callers :
             TimeoutResume(c, Others(frame[c].pThread)) => OthersRunning(c)']_vars

\* a timed-out call requested the forced abort and is in its second wait
C16_Witness ==
    \E c \in Callers :
        /\ pc[c] = "wait_grace"
        /\ frame[c].evalTimeOut
        /\ Made(c, "RudeAbort")

(* ------------------------------ the slot lock --------------------------- *)
\* C17: the result-slot lock is held by a caller only inside RunEval, between
\* arming and the return (never in a wait on the future, never while waiting for
\* the call-level lock), so whoever holds it releases it and the callbacks get
\* it; a future that holds a value when the waiter starts waiting is found ready:
\* the waiter goes on to fetch it, without the timeout escalation.
C17_SlotLockNotHeldAcrossWait ==
    /\ [](\A c \in Callers :
             /\ m_evalResultMutex = c => pc[c] \in {"setup", "continue"}
             /\ pc[c] \in Waiting \union {"idle", "get"} => m_evalResultMutex # c)
    /\ [][\A c \in Callers :
             /\ pc[c] \in {"wait_primary", "wait_grace"}
             /\ Outcome(c).state = "value"
             /\ pc'[c] # pc[c]
             => /\ pc'[c] = IF pc[c] = "wait_primary" THEN "wait_grace" ELSE "get"
                /\ frame'[c] = frame[c]]_vars
    /\ (m_evalResultMutex # NoOne) ~> (m_evalResultMutex = NoOne)

\* the completion was delivered before the caller started its first wait
C17_Witness ==
    \E c \in Callers :
        /\ pc[c] = "wait_primary"
        /\ Outcome(c).state = "value"
        /\ m_evalResultMutex = NoOne

(* ------------------- completions, flags and handles --------------------- *)
\* C18 as stated: a NotifyEvalComplete for evaluation handle pEval fulfils only
\* a request that was armed with that handle.
C18_Original ==
    [][\A pThread \in 1..DeadThread, pEval \in 1..MaxEvals :
          /\ NotifyEvalComplete(pThread, pEval)
          /\ m_evalResult # <<>>
          /\ shared' # shared
          => m_evalResult[1].pEval = pEval]_vars

\* C19 as stated: between the flag reset of a call and its status translation a
\* flag is set only for the request that call armed: by a notification that
\* looked up that call's handle, by a cancel that aborted that call's request; a
\* notification that finds no request for its thread, and a notification whose
\* aborts both fail, leave the flags as they are.
C19_Original ==
    [][/\ NotificationSetFlag
             => \A c \in Callers :
                   pc[c] \in InFlight => frame[c].iCorEval = notif.pEval
       /\ \A abort \in AbortStatuses, rude \in AbortStatuses :
             CancelEvalRunning(abort, rude) /\ m_evalCanceled' # m_evalCanceled
                => \E c \in Callers :
                      /\ pc[c] \in InFlight
                      /\ m_evalResult # <<>>
                      /\ frame[c].iCorEval = m_evalResult[1].pEval
       /\ \A pThread \in 1..DeadThread :
             NotificationFind(pThread) /\ FindEvalForThread(pThread) = 0
                => UNCHANGED <<m_evalCanceled, m_evalCrossThreadDependency>>
                   /\ notif' = NoNotif
       /\ \A abort \in AbortStatuses, rude \in AbortStatuses :
             NotificationAbort(abort, rude) /\ FAILED(abort) /\ FAILED(rude)
                => UNCHANGED <<m_evalCanceled, m_evalCrossThreadDependency>>
                   /\ notif' = NoNotif]_vars

\* the WaitEvalResult call that created handle e has not returned yet
CallNotReturned(e) ==
    \E c \in Callers : pc[c] # "idle" /\ frame[c].iCorEval = e

\* C20 as stated: whenever CancelEvalRunning or ManagedCallbackCustomNotification
\* calls Abort or RudeAbort on a handle, the WaitEvalResult call that owns the
\* handle has not returned.
C20_Original ==
    [][/\ \A abort \in AbortStatuses, rude \in AbortStatuses :
             NotificationAbort(abort, rude) => CallNotReturned(notif.pEval)
       /\ \A abort \in AbortStatuses, rude \in AbortStatuses :
             CancelEvalRunning(abort, rude) /\ m_evalResult # <<>>
                => CallNotReturned(m_evalResult[1].pEval)]_vars

====
